---- MODULE Spec2Model ----
(***************************************************************************)
(* The minipar Scanner (src/src/lexer.py) as a state machine.              *)
(*                                                                         *)
(* A source string is a sequence of one-character strings.  The scanner's  *)
(* fields start, current, line and tokens are variables; reports is the    *)
(* sequence of (line, message) pairs handed to error.report; pc is the     *)
(* position of the scan inside scan_tokens / _scan_token and its sub-scan  *)
(* loops; exc is the exception that escaped scan_tokens, if any.           *)
(*                                                                         *)
(* The operations are pure operators over a scanner record, so that the    *)
(* actions below only select the operator that the position calls for.     *)
(* Inputs are ASCII: on ASCII str.isdigit is 0-9 and str.isalpha is        *)
(* a-z, A-Z.                                                               *)
(***************************************************************************)
EXTENDS Integers, Sequences, FiniteSets, TLC

VARIABLES source, start, current, line, tokens, reports, pc, exc

\* The command line of src/src/main.py: nargs is len(sys.argv), hadError the
\* module's flag, stdout the lines printed, status the exit status of the
\* process (-1 while it runs) and mpc the position of the script.
VARIABLES mpc, nargs, hadError, stdout, status

cli == <<mpc, nargs, hadError, stdout, status>>

\* Scanners side by side: klass holds the attributes of the class Scanner,
\* objs the instances, each with the names its own __dict__ holds.
VARIABLES klass, objs

others == <<klass, objs>>

vars == <<source, start, current, line, tokens, reports, pc, exc, cli, others>>

(***************************************************************************)
(* Bounds                                                                  *)
(***************************************************************************)
\* Longest source enumerated over Alphabet (the named Examples are longer).
MaxLen == 3

(***************************************************************************)
(* Characters                                                              *)
(***************************************************************************)
\* What _peek and _peek_next return at end of input.
None == "None"

Digits == {"0", "1", "2", "3", "4", "5", "6", "7", "8", "9"}

Letters ==
  {"a", "b", "c", "d", "e", "f", "g", "h", "i", "j", "k", "l", "m",
   "n", "o", "p", "q", "r", "s", "t", "u", "v", "w", "x", "y", "z",
   "A", "B", "C", "D", "E", "F", "G", "H", "I", "J", "K", "L", "M",
   "N", "O", "P", "Q", "R", "S", "T", "U", "V", "W", "X", "Y", "Z"}

\* str.isdigit, str.isalpha, str.isalnum on one ASCII character.
IsDigit(c) == c \in Digits

IsAlpha(c) == c \in Letters

IsAlnum(c) == IsAlpha(c) \/ IsDigit(c)

\* int(c) for a decimal digit.
DigitVal(c) ==
  CASE c = "0" -> 0 [] c = "1" -> 1 [] c = "2" -> 2 [] c = "3" -> 3
    [] c = "4" -> 4 [] c = "5" -> 5 [] c = "6" -> 6 [] c = "7" -> 7
    [] c = "8" -> 8 [] c = "9" -> 9

(***************************************************************************)
(* Token model                                                             *)
(***************************************************************************)
\* Token.literal: None, a float (decimal value mant / 10^scale, with the
\* trailing zeros of the fraction dropped), or the text of a string.
NoLiteral == [kind |-> "none", mant |-> 0, scale |-> 0, text |-> <<>>]

FloatLit(m, k) == [kind |-> "float", mant |-> m, scale |-> k, text |-> <<>>]

StrLit(t) == [kind |-> "str", mant |-> 0, scale |-> 0, text |-> t]

Token(type, lexeme, literal, ln) ==
  [type |-> type, lexeme |-> lexeme, literal |-> literal, line |-> ln]

\* Scanner.keywords: the exact text of each keyword and its token type.
keywords ==
  { <<"func", <<"f", "u", "n", "c">>, "FUNC">>,
    <<"if", <<"i", "f">>, "IF">>,
    <<"else", <<"e", "l", "s", "e">>, "ELSE">>,
    <<"while", <<"w", "h", "i", "l", "e">>, "WHILE">>,
    <<"return", <<"r", "e", "t", "u", "r", "n">>, "RETURN">>,
    <<"break", <<"b", "r", "e", "a", "k">>, "BREAK">>,
    <<"continue", <<"c", "o", "n", "t", "i", "n", "u", "e">>, "CONTINUE">>,
    <<"seq", <<"s", "e", "q">>, "SEQ">>,
    <<"par", <<"p", "a", "r">>, "PAR">>,
    <<"c_channel", <<"c", "_", "c", "h", "a", "n", "n", "e", "l">>, "C_CHANNEL">>,
    <<"s_channel", <<"s", "_", "c", "h", "a", "n", "n", "e", "l">>, "S_CHANNEL">>,
    <<"for", <<"f", "o", "r">>, "FOR">>,
    <<"number", <<"n", "u", "m", "b", "e", "r">>, "NUMBER_TYPE">>,
    <<"bool", <<"b", "o", "o", "l">>, "BOOL_TYPE">>,
    <<"string", <<"s", "t", "r", "i", "n", "g">>, "STRING_TYPE">>,
    <<"void", <<"v", "o", "i", "d">>, "VOID_TYPE">> }

\* self.keywords.get(text, TokenType.NAME)
KeywordType(text) ==
  IF \E k \in keywords : k[2] = text
  THEN (CHOOSE k \in keywords : k[2] = text)[3]
  ELSE "NAME"

(***************************************************************************)
(* float(lexeme) for a lexeme of the shape digits [ "." digits ]           *)
(***************************************************************************)
RECURSIVE IntOf(_)
IntOf(ds) ==
  IF ds = <<>> THEN 0
  ELSE 10 * IntOf(SubSeq(ds, 1, Len(ds) - 1)) + DigitVal(ds[Len(ds)])

RECURSIVE Normalize(_, _)
Normalize(m, k) ==
  IF k > 0 /\ m % 10 = 0 THEN Normalize(m \div 10, k - 1) ELSE FloatLit(m, k)

Float(lexeme) ==
  IF \E i \in 1..Len(lexeme) : lexeme[i] = "."
  THEN LET d == CHOOSE i \in 1..Len(lexeme) : lexeme[i] = "."
           frac == SubSeq(lexeme, d + 1, Len(lexeme))
       IN  Normalize(IntOf(SubSeq(lexeme, 1, d - 1) \o frac), Len(frac))
  ELSE Normalize(IntOf(lexeme), 0)

(***************************************************************************)
(* Scanner helpers.  s is a scanner: its fields, the error log and the     *)
(* position of the scan.                                                   *)
(***************************************************************************)
\* An exception e leaves the method that raised it and, nothing catching
\* it, scan_tokens.
Raise(s, e) == [s EXCEPT !.pc = "raised", !.exc = e]

\* error.report(line, msg): one logged record; arg is the character that an
\* f-string message interpolates ("" when the message has none).
report(s, ln, msg, arg) ==
  [s EXCEPT !.reports = Append(@, [line |-> ln, msg |-> msg, arg |-> arg])]

_is_at_end(s) == s.current >= Len(s.source)

\* _advance without the bound that indexing source enforces.
_advance_Unchecked(s) == [s EXCEPT !.current = @ + 1]

\* source[current] raises IndexError past the end, before current changes.
_advance(s) ==
  IF s.current >= Len(s.source)
  THEN Raise(s, "IndexError")
  ELSE [s EXCEPT !.current = @ + 1]

_add_token(s, type, literal) ==
  [s EXCEPT !.tokens =
     Append(@, Token(type, SubSeq(s.source, s.start + 1, s.current),
                     literal, s.line))]

\* The value _match returns, and the scanner it leaves.
MatchOk(s, expected) ==
  /\ ~_is_at_end(s)
  /\ s.source[s.current + 1] = expected

_match(s, expected) ==
  IF MatchOk(s, expected) THEN [s EXCEPT !.current = @ + 1] ELSE s

_peek(s) == IF _is_at_end(s) THEN None ELSE s.source[s.current + 1]

_peek_next(s) ==
  IF s.current + 1 >= Len(s.source) THEN None ELSE s.source[s.current + 2]

(***************************************************************************)
(* Sub-scans.  Each operator is one pass of the sub-scan's loop, or the    *)
(* loop's exit together with the straight-line code that follows it.       *)
(***************************************************************************)
\* _string with an OTHER token emitted for an unterminated string.
_string_OtherToken(s) ==
  IF _peek(s) # "\"" /\ ~_is_at_end(s)
  THEN _advance([s EXCEPT !.line = IF _peek(s) = "\n" THEN @ + 1 ELSE @])
  ELSE IF _is_at_end(s)
       THEN [_add_token(report(s, s.line, "Unterminated string.", ""),
                        "OTHER", NoLiteral) EXCEPT !.pc = "loop"]
       ELSE LET a == _advance(s)
                value == SubSeq(s.source, s.start + 2, a.current - 1)
            IN  [_add_token(a, "STRING", StrLit(value)) EXCEPT !.pc = "loop"]

\* _string with the quotes left in the literal.
_string_KeepsQuotes(s) ==
  IF _peek(s) # "\"" /\ ~_is_at_end(s)
  THEN _advance([s EXCEPT !.line = IF _peek(s) = "\n" THEN @ + 1 ELSE @])
  ELSE IF _is_at_end(s)
       THEN [report(s, s.line, "Unterminated string.", "") EXCEPT !.pc = "loop"]
       ELSE LET a == _advance(s)
                value == SubSeq(s.source, s.start + 1, a.current)
            IN  [_add_token(a, "STRING", StrLit(value)) EXCEPT !.pc = "loop"]

\* _string: the while loop, then the unterminated check or the STRING token.
_string(s) ==
  IF _peek(s) # "\"" /\ ~_is_at_end(s)
  THEN _advance([s EXCEPT !.line = IF _peek(s) = "\n" THEN @ + 1 ELSE @])
  ELSE IF _is_at_end(s)
       THEN [report(s, s.line, "Unterminated string.", "") EXCEPT !.pc = "loop"]
       ELSE LET a == _advance(s)
                value == SubSeq(s.source, s.start + 2, a.current - 1)
            IN  [_add_token(a, "STRING", StrLit(value)) EXCEPT !.pc = "loop"]

\* _number, last line: the NUMBER token with float(source[start:current]).
NumberToken(s) ==
  [_add_token(s, "NUMBER", Float(SubSeq(s.source, s.start + 1, s.current)))
     EXCEPT !.pc = "loop"]

\* _number, first loop and the test for a fraction.  None has no isdigit:
\* calling it raises AttributeError.
NumberInt(s) ==
  IF _peek(s) = None THEN Raise(s, "AttributeError")
  ELSE IF IsDigit(_peek(s)) THEN _advance(s)
  ELSE IF _peek(s) = "."
       THEN IF _peek_next(s) = None THEN Raise(s, "AttributeError")
            ELSE IF IsDigit(_peek_next(s))
                 THEN [_advance(s) EXCEPT !.pc = "number_frac"]
                 ELSE NumberToken(s)
       ELSE NumberToken(s)

\* _number, the loop over the fraction's digits.
NumberFrac(s) ==
  IF _peek(s) = None THEN Raise(s, "AttributeError")
  ELSE IF IsDigit(_peek(s)) THEN _advance(s)
  ELSE NumberToken(s)

\* _name: the loop, then the keyword lookup.  None has no isalnum.
_name(s) ==
  IF _peek(s) = None THEN Raise(s, "AttributeError")
  ELSE IF IsAlnum(_peek(s)) \/ _peek(s) = "_" THEN _advance(s)
  ELSE [_add_token(s, KeywordType(SubSeq(s.source, s.start + 1, s.current)),
                   NoLiteral) EXCEPT !.pc = "loop"]

\* case "#": while not self._match("\n"): self._advance()
LineComment(s) ==
  IF MatchOk(s, "\n")
  THEN [_match(s, "\n") EXCEPT !.pc = "loop"]
  ELSE _advance(s)

\* The second case "/": the loop looks for the next "/".
RECURSIVE BlockCommentLoop(_)
BlockCommentLoop(s) ==
  IF MatchOk(s, "/") THEN _match(s, "/")
  ELSE IF _is_at_end(s)
       THEN report(s, s.line, "Unterminated comment.", "")
       ELSE BlockCommentLoop(_advance(s))

BlockComment(s) ==
  IF MatchOk(s, "*")
  THEN BlockCommentLoop(_match(s, "*"))
  ELSE _add_token(s, "SLASH", NoLiteral)

(***************************************************************************)
(* _scan_token: the match statement.  Python takes the first case whose    *)
(* pattern equals c, so the cases are kept in the order of the source.     *)
(***************************************************************************)
Case(pat, arm, type, partner, type2) ==
  [pat |-> pat, arm |-> arm, type |-> type, partner |-> partner, type2 |-> type2]

Cases ==
  << Case({"("}, "token", "LEFT_PAREN", None, None),
     Case({")"}, "token", "RIGHT_PAREN", None, None),
     Case({"{"}, "token", "LEFT_BRACE", None, None),
     Case({"}"}, "token", "RIGHT_BRACE", None, None),
     Case({","}, "token", "COMMA", None, None),
     Case({"."}, "token", "DOT", None, None),
     Case({"+"}, "token", "PLUS", None, None),
     Case({";"}, "token", "SEMICOLON", None, None),
     Case({"/"}, "token", "SLASH", None, None),
     Case({"*"}, "token", "STAR", None, None),
     Case({":"}, "token", "TYPEOF", None, None),
     Case({"-"}, "pair", "MINUS", ">", "RARROW"),
     Case({"!"}, "pair", "NOT", "=", "NEQ"),
     Case({"|"}, "pair_or_error", "OTHER", "|", "OR"),
     Case({"&"}, "pair_or_error", "OTHER", "&", "AND"),
     Case({"="}, "pair", "ASSIGN", "=", "EQ"),
     Case({"<"}, "pair", "LESS", "=", "LTE"),
     Case({">"}, "pair", "GREATER", "=", "GTE"),
     Case({"#"}, "line_comment", None, None, None),
     Case({"/"}, "block_comment", None, None, None),
     Case({" ", "\t", "\r"}, "skip", None, None, None),
     Case({"\n"}, "newline", None, None, None),
     Case({"\""}, "string", None, None, None) >>

\* case _ :
Wildcard == Case({}, "default", None, None, None)

\* The case that the match statement selects for c.
SelectedCase(c) ==
  IF \E i \in 1..Len(Cases) : c \in Cases[i].pat
  THEN Cases[CHOOSE i \in 1..Len(Cases) :
               /\ c \in Cases[i].pat
               /\ \A j \in 1..(i - 1) : c \notin Cases[j].pat]
  ELSE Wildcard

\* PairArm with the partner recognized and left unconsumed.
PairArm_PartnerLeft(s, k) ==
  IF MatchOk(s, k.partner)
  THEN _add_token(s, k.type2, NoLiteral)
  ELSE _add_token(s, k.type, NoLiteral)

\* The arms for "-", "!", "=", "<", ">": two characters or one.
PairArm(s, k) ==
  IF MatchOk(s, k.partner)
  THEN _add_token(_match(s, k.partner), k.type2, NoLiteral)
  ELSE _add_token(s, k.type, NoLiteral)

\* OrAndArm with the error branch emitting its OTHER token unreported.
OrAndArm_Unreported(s, k) ==
  IF MatchOk(s, k.partner)
  THEN _add_token(_match(s, k.partner), k.type2, NoLiteral)
  ELSE _add_token(s, "OTHER", NoLiteral)

\* The arms for "|" and "&": the operator, or an error and an OTHER token.
OrAndArm(s, k) ==
  IF MatchOk(s, k.partner)
  THEN _add_token(_match(s, k.partner), k.type2, NoLiteral)
  ELSE _add_token(report(s, s.line, "Unexpected character.", ""),
                  "OTHER", NoLiteral)

\* case _ : a number, a name, or an error and an OTHER token.
DefaultArm(s, c) ==
  IF IsDigit(c) THEN [s EXCEPT !.pc = "number_int"]
  ELSE IF IsAlpha(c) \/ c = "_" THEN [s EXCEPT !.pc = "name"]
  ELSE _add_token(report(s, s.line, "Unexpected character {c}. ", c),
                  "OTHER", NoLiteral)

\* _scan_token up to the end of the selected arm or to the head of the
\* sub-scan loop the arm enters.  Called with current < len(source).
_scan_token(s) ==
  LET c == s.source[s.current + 1]
      a == _advance(s)
      k == SelectedCase(c)
  IN  CASE k.arm = "token" -> _add_token(a, k.type, NoLiteral)
        [] k.arm = "pair" -> PairArm(a, k)
        [] k.arm = "pair_or_error" -> OrAndArm(a, k)
        [] k.arm = "line_comment" -> [a EXCEPT !.pc = "line_comment"]
        [] k.arm = "block_comment" -> BlockComment(a)
        [] k.arm = "skip" -> a
        [] k.arm = "newline" -> [a EXCEPT !.line = @ + 1]
        [] k.arm = "string" -> [a EXCEPT !.pc = "string"]
        [] k.arm = "default" -> DefaultArm(a, c)

\* scan_tokens with start left where it was.
scan_tokens_StartKept(s) ==
  IF _is_at_end(s)
  THEN [s EXCEPT !.pc = "done"]
  ELSE _scan_token(s)

\* scan_tokens with an end marker appended before it returns.
scan_tokens_EndMarker(s) ==
  IF _is_at_end(s)
  THEN [_add_token([s EXCEPT !.start = s.current], "NEWLINE", NoLiteral)
          EXCEPT !.pc = "done"]
  ELSE _scan_token([s EXCEPT !.start = s.current])

\* scan_tokens: one test of the while condition, then the return or the
\* body: start = current; _scan_token().
scan_tokens(s) ==
  IF _is_at_end(s)
  THEN [s EXCEPT !.pc = "done"]
  ELSE _scan_token([s EXCEPT !.start = s.current])

(***************************************************************************)
(* Inputs                                                                  *)
(***************************************************************************)
\* The characters sources are enumerated over: one of each kind the
\* dispatch tells apart.
Alphabet ==
  {"1", ".", "a", "_", "#", "\n", "/", "*", "&", "\"", " ", "@", "-", ">"}

\* Sources scanned whole besides the enumerated ones.
Examples ==
  { <<"1", "+", "2">>,
    <<"3", ".">>,
    <<"3", ".", "5", "0", " ">>,
    <<"f", "u", "n", "c", " ", "i", "f", " ", "x", "1", "2", "3", " ", "_", "y">>,
    <<"f", "u", "n", "c", " ", "i", "f", " ", "x", "1", "2", "3", " ", "_", "y", "\n">>,
    <<"F", "u", "n", "c">>,
    <<"F", "u", "n", "c", " ">>,
    <<"|", "|", " ", "|", "&", "&">>,
    <<"!", "=", "=", "=", "<", "=", ">", "=", "<", ">", "!", "=">>,
    <<"\"", "a", "b", "c", "\"">>,
    <<"\"", "a", "b", "c">>,
    <<"/", "*", "a", "\n", "*", "/", "\n", "@">>,
    <<"#", "a", "\n", "\"", "\n", "\"", "\n", "@">>,
    <<"(", ")", "{", "}", ",", ";", ":", "\t", "\r">>,
    <<"!", "<", " ", "=">>,
    <<"=", "<", "!">>,
    <<"!", "<">> }

Sources == (UNION {[1..n -> Alphabet] : n \in 0..MaxLen}) \cup Examples

(***************************************************************************)
(* The state machine                                                       *)
(***************************************************************************)
\* The scanner the variables hold.
Self ==
  [source |-> source, start |-> start, current |-> current, line |-> line,
   tokens |-> tokens, reports |-> reports, pc |-> pc, exc |-> exc]

\* The variables take the fields of s.
Becomes(s) ==
  /\ source' = s.source
  /\ start' = s.start
  /\ current' = s.current
  /\ line' = s.line
  /\ tokens' = s.tokens
  /\ reports' = s.reports
  /\ pc' = s.pc
  /\ exc' = s.exc
  /\ UNCHANGED <<cli, others>>

\* start: int = 0, current: int = 0, line: int = 1 in the class body.
ClassDefaults == [start |-> 0, current |-> 0, line |-> 1]

\* No other Scanner exists.
NoOthers ==
  /\ klass = ClassDefaults
  /\ objs = <<>>

\* No script runs: the scanner is used on its own.
NoScript ==
  /\ mpc = "none"
  /\ nargs = 0
  /\ hadError = FALSE
  /\ stdout = <<>>
  /\ status = -1

\* Scanner(source) followed by the call of scan_tokens.
Init ==
  /\ source \in Sources
  /\ start = 0
  /\ current = 0
  /\ line = 1
  /\ tokens = <<>>
  /\ reports = <<>>
  /\ pc = "loop"
  /\ exc = None
  /\ NoScript
  /\ NoOthers

\* scan_tokens finds the end of the source and returns tokens.
Return ==
  /\ pc = "loop"
  /\ _is_at_end(Self)
  /\ Becomes(scan_tokens(Self))

\* scan_tokens runs its loop body once.
ScanToken ==
  /\ pc = "loop"
  /\ ~_is_at_end(Self)
  /\ Becomes(scan_tokens(Self))

StringStep ==
  /\ pc = "string"
  /\ Becomes(_string(Self))

NumberIntStep ==
  /\ pc = "number_int"
  /\ Becomes(NumberInt(Self))

NumberFracStep ==
  /\ pc = "number_frac"
  /\ Becomes(NumberFrac(Self))

NameStep ==
  /\ pc = "name"
  /\ Becomes(_name(Self))

LineCommentStep ==
  /\ pc = "line_comment"
  /\ Becomes(LineComment(Self))

Next ==
  \/ Return
  \/ ScanToken
  \/ StringStep
  \/ NumberIntStep
  \/ NumberFracStep
  \/ NameStep
  \/ LineCommentStep

Spec == Init /\ [][Next]_vars

(***************************************************************************)
(* The command line, src/src/main.py                                       *)
(***************************************************************************)
\* What print writes: the usage line, or str(token).
UsageLine == [text |-> "Usage: minipar <program>", lexeme |-> <<>>, literal |-> NoLiteral]

TokenLine(t) == [text |-> t.type, lexeme |-> t.lexeme, literal |-> t.literal]

\* The script is started with nargs - 1 arguments; source is what the file
\* named by the first holds.  hadError = False at module level.
InitMain ==
  /\ source \in Sources
  /\ start = 0
  /\ current = 0
  /\ line = 1
  /\ tokens = <<>>
  /\ reports = <<>>
  /\ pc = "idle"
  /\ exc = None
  /\ mpc = "main"
  /\ nargs \in 1..3
  /\ hadError = FALSE
  /\ stdout = <<>>
  /\ status = -1
  /\ NoOthers

Scanner == <<source, start, current, line, tokens, reports, pc, exc>>

\* len(args) > 2: the usage line and sys.exit(1).
MainUsage ==
  /\ mpc = "main"
  /\ nargs > 2
  /\ stdout' = Append(stdout, UsageLine)
  /\ status' = 1
  /\ mpc' = "exited"
  /\ UNCHANGED <<others, Scanner, nargs, hadError>>

\* len(args) == 1: pass, and the script ends.
MainNoArgs ==
  /\ mpc = "main"
  /\ nargs < 2
  /\ status' = 0
  /\ mpc' = "exited"
  /\ UNCHANGED <<others, Scanner, nargs, hadError, stdout>>

\* len(args) == 2: run_file reads the file and run builds the Scanner and
\* calls scan_tokens.
MainRunFile ==
  /\ mpc = "main"
  /\ nargs = 2
  /\ mpc' = "run"
  /\ pc' = "loop"
  /\ UNCHANGED <<others, source, start, current, line, tokens, reports, exc,
                 nargs, hadError, stdout, status>>

\* run: for token in tokens: print(token), one token a step.
PrintToken ==
  /\ mpc = "run"
  /\ pc = "done"
  /\ Len(stdout) < Len(tokens)
  /\ stdout' = Append(stdout, TokenLine(tokens[Len(stdout) + 1]))
  /\ UNCHANGED <<others, Scanner, mpc, nargs, hadError, status>>

\* run_file after run: if hadError: sys.exit(65); else the script ends.
ExitCheck ==
  /\ mpc = "run"
  /\ pc = "done"
  /\ Len(stdout) = Len(tokens)
  /\ status' = IF hadError THEN 65 ELSE 0
  /\ mpc' = "exited"
  /\ UNCHANGED <<others, Scanner, nargs, hadError, stdout>>

\* An exception that leaves scan_tokens leaves the script: exit status 1.
Uncaught ==
  /\ mpc = "run"
  /\ pc = "raised"
  /\ status' = 1
  /\ mpc' = "exited"
  /\ UNCHANGED <<others, Scanner, nargs, hadError, stdout>>

NextMain ==
  \/ MainUsage
  \/ MainNoArgs
  \/ MainRunFile
  \/ Next
  \/ PrintToken
  \/ ExitCheck
  \/ Uncaught

SpecMain == InitMain /\ [][NextMain]_vars

(***************************************************************************)
(* Two Scanner instances in one process                                    *)
(***************************************************************************)
\* Longest source of the two scanners.
MaxPairLen == 2

PairAlphabet == {"1", "\n", "\"", "@"}

PairSources == UNION {[1..n -> PairAlphabet] : n \in 0..MaxPairLen}

\* Scanner(source): __init__ puts source and tokens in the instance; start,
\* current and line are found in the class until the instance assigns them.
NewScanner(src) ==
  [source |-> src, tokens |-> <<>>, dict |-> {"source", "tokens"},
   start |-> 0, current |-> 0, line |-> 0, pc |-> "loop", exc |-> None]

\* self.f: the instance's attribute if it has one, else the class's.
GetAttr(o, k, f) == IF f \in o.dict THEN o[f] ELSE k[f]

\* The scanner that the methods of instance o see; log is what error.report
\* has logged in the process.
View(o, k, log) ==
  [source |-> o.source,
   start |-> GetAttr(o, k, "start"),
   current |-> GetAttr(o, k, "current"),
   line |-> GetAttr(o, k, "line"),
   tokens |-> o.tokens, reports |-> log, pc |-> o.pc, exc |-> o.exc]

\* The step the scanner s takes at its position.
StepOf(s) ==
  CASE s.pc = "loop" -> scan_tokens(s)
    [] s.pc = "string" -> _string(s)
    [] s.pc = "number_int" -> NumberInt(s)
    [] s.pc = "number_frac" -> NumberFrac(s)
    [] s.pc = "name" -> _name(s)
    [] s.pc = "line_comment" -> LineComment(s)

\* The attributes the step from s to t assigns: self.start = self.current
\* in the loop body, self.current += 1 and self.line += 1 where they run.
Assigned(s, t) ==
  (IF s.pc = "loop" /\ ~_is_at_end(s) THEN {"start"} ELSE {})
    \cup (IF t.current # s.current THEN {"current"} ELSE {})
    \cup (IF t.line # s.line THEN {"line"} ELSE {})

\* SetAttrs with self.line += 1 written as Scanner.line += 1.
SetAttrs_LineOnClass(o, k, t, as) ==
  [obj |-> [o EXCEPT !.dict = @ \cup (as \ {"line"}),
                     !.start = IF "start" \in as THEN t.start ELSE @,
                     !.current = IF "current" \in as THEN t.current ELSE @,
                     !.tokens = t.tokens, !.pc = t.pc, !.exc = t.exc],
   klass |-> [k EXCEPT !.line = IF "line" \in as THEN t.line ELSE @]]

\* Assignments to self.f put f in the instance and leave the class alone;
\* tokens.append changes the instance's own list.
SetAttrs(o, k, t, as) ==
  [obj |-> [o EXCEPT !.dict = @ \cup as,
                     !.start = IF "start" \in as THEN t.start ELSE @,
                     !.current = IF "current" \in as THEN t.current ELSE @,
                     !.line = IF "line" \in as THEN t.line ELSE @,
                     !.tokens = t.tokens, !.pc = t.pc, !.exc = t.exc],
   klass |-> k]

\* Two scanners are built, each over its own source, and both scans begin.
InitPair ==
  /\ source = <<>>
  /\ start = 0
  /\ current = 0
  /\ line = 1
  /\ tokens = <<>>
  /\ reports = <<>>
  /\ pc = "idle"
  /\ exc = None
  /\ NoScript
  /\ klass = ClassDefaults
  /\ \E a \in PairSources, b \in PairSources :
       objs = <<NewScanner(a), NewScanner(b)>>

\* Scanner i takes its next step.
PairStep(i) ==
  /\ objs[i].pc \notin {"done", "raised"}
  /\ LET s == View(objs[i], klass, reports)
         t == StepOf(s)
         r == SetAttrs(objs[i], klass, t, Assigned(s, t))
     IN  /\ objs' = [objs EXCEPT ![i] = r.obj]
         /\ klass' = r.klass
         /\ reports' = t.reports
  /\ UNCHANGED <<source, start, current, line, tokens, pc, exc, cli>>

StepFirst == PairStep(1)

StepSecond == PairStep(2)

NextPair == StepFirst \/ StepSecond

SpecPair == InitPair /\ [][NextPair]_vars

(***************************************************************************)
(* Vocabulary of the properties                                            *)
(***************************************************************************)
\* scan_tokens is over: it returned, or an exception left it.
Stopped == pc \in {"done", "raised"}

\* The number of "\n" among the first n characters of the source.
NewlinesBefore(n) == Cardinality({i \in 1..n : source[i] = "\n"})

\* The last step dispatched on the character at start and is complete.
DispatchedOn(c) ==
  /\ pc \in {"loop", "done"}
  /\ start < current
  /\ source[start + 1] = c

\* The scan is about to dispatch on c.
AboutToDispatch(c) == pc = "loop" /\ _peek(Self) = c

\* The positions j > from at which the source reads x followed by y.
PairsAfter(from, x, y) ==
  {j \in (from + 1)..(Len(source) - 1) : source[j] = x /\ source[j + 1] = y}

\* Where a block comment opened at current ends: after its closing "*/",
\* or at the end of the source.
BlockCommentEnd ==
  IF PairsAfter(current + 2, "*", "/") = {}
  THEN Len(source)
  ELSE 1 + CHOOSE j \in PairsAfter(current + 2, "*", "/") :
             \A i \in PairsAfter(current + 2, "*", "/") : j <= i

\* Where a line comment opened at start ends: at the next "\n", or at the
\* end of the source.
LineCommentEnd ==
  IF \E j \in (start + 1)..Len(source) : source[j] = "\n"
  THEN (CHOOSE j \in (start + 1)..Len(source) :
          /\ source[j] = "\n"
          /\ \A i \in (start + 1)..(j - 1) : source[i] # "\n") - 1
  ELSE Len(source)

\* The text of the token being scanned.
Lexeme == SubSeq(source, start + 1, current)

IsUnexpected(r) ==
  r.msg \in {"Unexpected character.", "Unexpected character {c}. "}

Count(seq, P(_)) == Cardinality({i \in 1..Len(seq) : P(seq[i])})

IsOther(t) == t.type = "OTHER"

\* The characters that begin a recognized pattern on their own.
Recognized ==
  {"(", ")", "{", "}", ",", ".", "+", ";", "*", ":", "-", "!", "=", "<", ">",
   "#", "/", " ", "\t", "\r", "\n", "\"", "_"} \cup Digits \cup Letters

\* The scan is about to dispatch on a character that matches no pattern.
AboutToDispatchUnrecognized ==
  /\ pc = "loop"
  /\ ~_is_at_end(Self)
  /\ \/ _peek(Self) \notin Recognized \cup {"&", "|"}
     \/ _peek(Self) \in {"&", "|"} /\ _peek_next(Self) # _peek(Self)

(***************************************************************************)
(* Properties                                                              *)
(***************************************************************************)
\* C1: no exception escapes scan_tokens, whatever the source, also when the
\* source ends inside a number, an identifier or a "#" comment.
C1_NoExceptionEscapes == pc # "raised"

\* C2: the scan stops only once current >= len(source): when scan_tokens
\* is over, the whole source has been consumed.
C2_StopsAtEndOfSource == Stopped => current >= Len(source)

\* C3: between dispatch steps line is 1 plus the number of "\n" in
\* source[0:current].
C3_LineCountsNewlines ==
  pc \in {"loop", "done"} => line = 1 + NewlinesBefore(current)

\* C4: "/" followed by "*" opens a block comment, which is consumed through
\* its closing "*/" without a token; any other "/" gives one SLASH token.
C4_SlashStarIsBlockComment ==
  [][AboutToDispatch("/") =>
       IF _peek_next(Self) = "*"
       THEN tokens' = tokens /\ current' = BlockCommentEnd
       ELSE /\ tokens' = Append(tokens, Token("SLASH", <<"/">>, NoLiteral, line))
            /\ current' = current + 1]_vars

\* C5: a block comment with no closing "*/" gives exactly one
\* "Unterminated comment." report and no token, and ends the scan.
C5_UnterminatedCommentReported ==
  [][(/\ AboutToDispatch("/")
      /\ _peek_next(Self) = "*"
      /\ PairsAfter(current + 2, "*", "/") = {}) =>
       /\ tokens' = tokens
       /\ Len(reports') = Len(reports) + 1
       /\ SubSeq(reports', 1, Len(reports)) = reports
       /\ reports'[Len(reports')].msg = "Unterminated comment."
       /\ current' = Len(source)]_vars

\* C6: a "#" comment ends before the next "\n", or at the end of the source
\* when there is none, and emits no token.
C6_LineCommentStopsBeforeNewline ==
  /\ [](DispatchedOn("#") => current = LineCommentEnd)
  /\ [][pc = "line_comment" => tokens' = tokens /\ pc' # "raised"]_vars

\* C7: "1+2" gives NUMBER(1.0), PLUS, NUMBER(2.0) and nothing more; a source
\* made of digits alone gives the one NUMBER token of its value.
C7_NumberAtEndOfSource ==
  /\ (Stopped /\ source = <<"1", "+", "2">>) =>
       /\ pc = "done"
       /\ tokens = << Token("NUMBER", <<"1">>, FloatLit(1, 0), 1),
                      Token("PLUS", <<"+">>, NoLiteral, 1),
                      Token("NUMBER", <<"2">>, FloatLit(2, 0), 1) >>
  /\ (Stopped /\ source # <<>> /\ \A i \in 1..Len(source) : IsDigit(source[i])) =>
       /\ pc = "done"
       /\ tokens = << Token("NUMBER", source, FloatLit(IntOf(source), 0), 1) >>

\* C8: after the digits of a number, a "." that no digit follows is left
\* alone: the NUMBER token is that of the digits, and "3." gives NUMBER(3.0)
\* and DOT.
C8_DotNeedsDigitAfter ==
  /\ []((Stopped /\ source = <<"3", ".">>) =>
          tokens = << Token("NUMBER", <<"3">>, FloatLit(3, 0), 1),
                      Token("DOT", <<".">>, NoLiteral, 1) >>)
  /\ [][(/\ pc = "number_int"
         /\ _peek(Self) = "."
         /\ ~IsDigit(_peek_next(Self))) =>
          /\ pc' = "loop"
          /\ current' = current
          /\ tokens' = Append(tokens, Token("NUMBER", Lexeme,
                                            FloatLit(IntOf(Lexeme), 0), line))]_vars

\* C9: an identifier is the longest run of letters, digits and "_", and
\* gives one token: the keyword's type when the run is a keyword, else NAME.
C9_NameOrKeyword ==
  /\ []((Stopped /\ source = <<"F", "u", "n", "c">>) =>
          tokens = << Token("NAME", source, NoLiteral, 1) >>)
  /\ []((Stopped /\ source = <<"f", "u", "n", "c", " ", "i", "f", " ",
                               "x", "1", "2", "3", " ", "_", "y">>) =>
          tokens = << Token("FUNC", <<"f", "u", "n", "c">>, NoLiteral, 1),
                      Token("IF", <<"i", "f">>, NoLiteral, 1),
                      Token("NAME", <<"x", "1", "2", "3">>, NoLiteral, 1),
                      Token("NAME", <<"_", "y">>, NoLiteral, 1) >>)
  /\ [][pc = "name" =>
          IF IsAlnum(_peek(Self)) \/ _peek(Self) = "_"
          THEN current' = current + 1 /\ tokens' = tokens /\ pc' = "name"
          ELSE /\ pc' = "loop"
               /\ current' = current
               /\ tokens' = Append(tokens, Token(KeywordType(Lexeme), Lexeme,
                                                 NoLiteral, line))]_vars

\* C10: a character that matches no pattern gives one "Unexpected
\* character" report at the current line and one OTHER token holding that
\* character; there are always as many OTHER tokens as such reports.
C10_UnexpectedCharacter ==
  /\ [](Count(tokens, IsOther) = Count(reports, IsUnexpected))
  /\ [][AboutToDispatchUnrecognized =>
          /\ current' = current + 1
          /\ tokens' = Append(tokens, Token("OTHER", <<_peek(Self)>>,
                                            NoLiteral, line))
          /\ Len(reports') = Len(reports) + 1
          /\ SubSeq(reports', 1, Len(reports)) = reports
          /\ IsUnexpected(reports'[Len(reports')])
          /\ reports'[Len(reports')].line = line]_vars

\* C10: "&" alone has been reported and has given its OTHER token.
C10_Witness ==
  /\ tokens # <<>>
  /\ reports # <<>>
  /\ tokens[Len(tokens)] = Token("OTHER", <<"&">>, NoLiteral, line)
  /\ reports[Len(reports)] = [line |-> line, msg |-> "Unexpected character.", arg |-> ""]

IsUnterminatedString(r) == r.msg = "Unterminated string."

\* The string being scanned has no closing quote ahead.
NoClosingQuoteAhead ==
  /\ pc = "string"
  /\ \A j \in (current + 1)..Len(source) : source[j] # "\""

\* C11: a string whose closing quote is missing gives exactly one
\* "Unterminated string." report and no token, leaves the tokens emitted
\* before it as they were, and ends the scan with current = len(source).
C11_UnterminatedString ==
  /\ [](Count(reports, IsUnterminatedString) <= 1)
  /\ [](Count(reports, IsUnterminatedString) = 1 =>
          /\ pc \in {"loop", "done"}
          /\ current = Len(source)
          /\ IsUnterminatedString(reports[Len(reports)]))
  /\ []((pc = "done" /\ source = <<"\"", "a", "b", "c">>) =>
          /\ tokens = <<>>
          /\ reports = << [line |-> 1, msg |-> "Unterminated string.", arg |-> ""] >>)
  /\ [][NoClosingQuoteAhead =>
          /\ tokens' = tokens
          /\ IF _is_at_end(Self)
             THEN /\ pc' = "loop"
                  /\ current' = current
                  /\ reports' = Append(reports, [line |-> line,
                                                 msg |-> "Unterminated string.",
                                                 arg |-> ""])
             ELSE /\ pc' = "string"
                  /\ current' = current + 1
                  /\ reports' = reports]_vars

\* C11: an unterminated string that follows a token has been reported and
\* the scan has returned.
C11_Witness ==
  /\ pc = "done"
  /\ tokens # <<>>
  /\ reports # <<>>
  /\ IsUnterminatedString(reports[Len(reports)])

\* One token was appended to tokens in this step.
Emitted == Len(tokens') = Len(tokens) + 1 /\ SubSeq(tokens', 1, Len(tokens)) = tokens

\* C12: a terminated string gives one STRING token; its lexeme runs from the
\* opening quote through the first quote after it, and its literal is the
\* text between the two, unprocessed.
C12_StringToken ==
  /\ []((Stopped /\ source = <<"\"", "a", "b", "c", "\"">>) =>
          tokens = << Token("STRING", source, StrLit(<<"a", "b", "c">>), 1) >>)
  /\ [](\A i \in 1..Len(tokens) :
          tokens[i].type = "STRING" =>
            /\ tokens[i].literal.kind = "str"
            /\ tokens[i].lexeme = <<"\"">> \o tokens[i].literal.text \o <<"\"">>
            /\ \A j \in 1..Len(tokens[i].literal.text) :
                 tokens[i].literal.text[j] # "\"")
  /\ [][pc = "string" /\ ~_is_at_end(Self) =>
          IF _peek(Self) = "\""
          THEN /\ pc' = "loop"
               /\ current' = current + 1
               /\ Emitted
               /\ tokens'[Len(tokens')].type = "STRING"
               /\ tokens'[Len(tokens')].lexeme = SubSeq(source, start + 1, current + 1)
               /\ tokens'[Len(tokens')].literal = StrLit(SubSeq(source, start + 2, current))
          ELSE /\ pc' = "string"
               /\ current' = current + 1
               /\ tokens' = tokens]_vars

\* C12: a STRING token with text between its quotes has been emitted.
C12_Witness ==
  /\ tokens # <<>>
  /\ tokens[Len(tokens)].type = "STRING"
  /\ tokens[Len(tokens)].literal.text # <<>>

\* C13: the line of every token is the line on which the token started:
\* 1 plus the number of "\n" in source[0:start] when it is emitted.
C13_TokenLineIsStartLine ==
  [][Len(tokens') > Len(tokens) =>
       tokens'[Len(tokens')].line = 1 + NewlinesBefore(start')]_vars

\* C15: there are never more tokens than consumed characters, so the tokens
\* returned are no more than the characters of the source.
C15_TokensBoundedByCurrent ==
  /\ Len(tokens) <= current
  /\ pc = "done" => Len(tokens) <= Len(source)

\* C15: a source of several characters has given one token per character.
C15_Witness ==
  /\ pc = "done"
  /\ Len(source) >= 2
  /\ Len(tokens) = Len(source)

\* C18: 0 <= start <= current <= len(source) at every position of the scan.
C18_CursorBounds ==
  /\ 0 <= start
  /\ start <= current
  /\ current <= Len(source)

\* C18: a sub-scan has run into the end of the source.
C18_Witness ==
  /\ pc \in {"string", "number_int", "number_frac", "name", "line_comment"}
  /\ start + 1 < current
  /\ current = Len(source)

\* The characters that may begin a two-character operator, each with its
\* partner, the operator's type and the type of the character alone.
Leads ==
  { <<"-", ">", "RARROW", "MINUS">>,
    <<"!", "=", "NEQ", "NOT">>,
    <<"=", "=", "EQ", "ASSIGN">>,
    <<"<", "=", "LTE", "LESS">>,
    <<">", "=", "GTE", "GREATER">> }

\* C19: a lead character followed by its partner gives one two-character
\* token; otherwise, also at the end of the source, it gives its own
\* one-character token and the next character is left for the next step.
C19_TwoCharacterOperators ==
  [][\A l \in Leads :
       AboutToDispatch(l[1]) =>
         /\ pc' = "loop"
         /\ IF _peek_next(Self) = l[2]
            THEN /\ current' = current + 2
                 /\ tokens' = Append(tokens, Token(l[3], <<l[1], l[2]>>,
                                                   NoLiteral, line))
            ELSE /\ current' = current + 1
                 /\ tokens' = Append(tokens, Token(l[4], <<l[1]>>,
                                                   NoLiteral, line))]_vars

\* C19: "->" has given RARROW and a lone lead character its own token.
C19_Witness ==
  /\ Len(tokens) >= 2
  /\ \E i \in 1..Len(tokens) :
       tokens[i].type = "RARROW" /\ tokens[i].lexeme = <<"-", ">">>
  /\ \E i \in 1..Len(tokens) :
       tokens[i].type \in {"MINUS", "GREATER"} /\ Len(tokens[i].lexeme) = 1

\* The text a completed step has consumed.
Segment == SubSeq(source', start' + 1, current')

\* Text that is skipped: one whitespace character, or a "#" comment with
\* the newline that ends it.
IsWhitespaceOrComment(seg) ==
  \/ seg \in {<<" ">>, <<"\t">>, <<"\r">>, <<"\n">>}
  \/ /\ seg[1] = "#"
     /\ \A j \in 1..(Len(seg) - 1) : seg[j] # "\n"

\* The text of a string whose closing quote is missing, dropped at the end
\* of the source.
IsUnterminatedStringText(seg) ==
  /\ seg[1] = "\""
  /\ \A j \in 2..Len(seg) : seg[j] # "\""
  /\ current' = Len(source)

\* Steps consume adjoining, non-empty segments of the source in order, and
\* a segment is the lexeme of the one token its step emits or else is
\* Skipped.
Partitioned(Skipped(_)) ==
  /\ source' = source
  /\ (pc = "loop" /\ ~_is_at_end(Self)) => start' = current
  /\ pc # "loop" => start' = start
  /\ tokens' # tokens => pc' = "loop" /\ Emitted
  /\ (pc' = "loop" /\ ~(pc = "loop" /\ _is_at_end(Self))) =>
       /\ start' < current'
       /\ IF tokens' # tokens
          THEN tokens'[Len(tokens')].lexeme = Segment
          ELSE Skipped(Segment)

SkippedOrDropped(seg) ==
  IsWhitespaceOrComment(seg) \/ IsUnterminatedStringText(seg)

C16_ExitStatusTellsErrors ==
  /\ (mpc = "run" /\ pc = "done" /\ Len(stdout) = Len(tokens)) =>
       (hadError <=> reports # <<>>)
  /\ (mpc = "exited" /\ pc = "done") =>
       /\ Len(stdout) = Len(tokens)
       /\ status = 65 <=> reports # <<>>

\* The fields of a scanner and the position of its scan.
Fields(s) ==
  [start |-> s.start, current |-> s.current, line |-> s.line,
   tokens |-> s.tokens, pc |-> s.pc, exc |-> s.exc]

\* Scanner i as its methods see it.
Seen(i) == View(objs[i], klass, reports)

\* Scanner s, running alone from where it is, comes to have the fields f.
RECURSIVE SoloReaches(_, _)
SoloReaches(s, f) ==
  \/ Fields(s) = f
  \/ /\ s.pc \notin {"done", "raised"}
     /\ SoloReaches(StepOf(s), f)

\* A scanner alone over src, as built.
Alone(src) ==
  [source |-> src, start |-> 0, current |-> 0, line |-> 1, tokens |-> <<>>,
   reports |-> <<>>, pc |-> "loop", exc |-> None]

\* C17: two scanners stepping in any order share no state: the class
\* defaults stay as written, a step of one scanner changes nothing the other
\* sees, and each scanner passes through the states of a run on its own.
C17_ScannersIndependent ==
  /\ [](klass = ClassDefaults)
  /\ [](\A i \in 1..2 : SoloReaches(Alone(objs[i].source), Fields(Seen(i))))
  /\ [][\A i \in 1..2 :
          objs'[i] # objs[i] =>
            /\ Fields(Seen(i)') = Fields(StepOf(Seen(i)))
            /\ \A j \in 1..2 : j # i => Fields(Seen(j)') = Fields(Seen(j))]_vars

\* C17: the first scanner has counted a line of its own and emitted a token
\* while the second, midway, still reads line from the class.
C17_Witness ==
  /\ "line" \in objs[1].dict
  /\ objs[1].tokens # <<>>
  /\ objs[2].pc = "loop"
  /\ objs[2].tokens # <<>>
  /\ objs[2].current < Len(objs[2].source)
  /\ "line" \notin objs[2].dict

====
